---- MODULE Spec2Model ----
(***************************************************************************)
(* Model of the BFHL service (src/app.py): the POST /bfhl handler `bfhl`   *)
(* and the classifier `process_array`.                                     *)
(*                                                                         *)
(* A Python string is a sequence of one-character strings.  Characters     *)
(* that have no ASCII spelling are named: "LF" is the line feed U+000A,    *)
(* "e_acute" is U+00E9, "E_ACUTE" is U+00C9 and "sup2" is U+00B2           *)
(* (SUPERSCRIPT TWO, for which str.isdigit() is true and float() fails).   *)
(***************************************************************************)
EXTENDS Integers, Sequences, FiniteSets, TLC

VARIABLES
    request,             \* the JSON body of the POST request (request.get_json())
    pc,                  \* position of the handler
    idx,                 \* process_array: 1-based position of the for loop
    odd_numbers,         \* process_array locals (app.py 13-18)
    even_numbers,
    alphabets,
    special_characters,
    numbers_sum,
    alphabet_strings,
    concat_string,
    called,              \* process_array was invoked for this request
    result,              \* what process_array returned (NoResult until it returns)
    raised,              \* the exception in flight, <<>> if none
    response,            \* the HTTP response of bfhl (NoResponse until it answers)
    prev,                \* the result the client fed back as this request, or NoResult
    threads,             \* concurrent callers of process_array: argument, position, outcome
    frames               \* the locals of each call of process_array in progress

vars == <<request, pc, idx, odd_numbers, even_numbers, alphabets,
          special_characters, numbers_sum, alphabet_strings, concat_string,
          called, result, raised, response, prev, threads, frames>>

\* the variables of one request handled by bfhl
handlerVars == <<request, pc, idx, odd_numbers, even_numbers, alphabets,
                 special_characters, numbers_sum, alphabet_strings, concat_string,
                 called, result, raised, response, prev>>

\* the variables of the concurrent calls of process_array
callVars == <<threads, frames>>

locals == <<odd_numbers, even_numbers, alphabets, special_characters,
            numbers_sum, alphabet_strings, concat_string>>

-----------------------------------------------------------------------------
(* Bounds of the model *)

\* longest list of tokens drawn from Items
MaxItems == 3
\* longest token of the exhaustive one-token inputs
MaxTokLen == 3
\* longest list handed to a concurrent call of process_array
MaxCallItems == 2

-----------------------------------------------------------------------------
(* Characters and Python's string methods *)

AsciiDigits == {"0", "1", "2", "3", "4", "5", "6", "7", "8", "9"}

LowerLetters == <<"a", "b", "c", "d", "e", "f", "g", "h", "i", "j", "k", "l", "m",
                  "n", "o", "p", "q", "r", "s", "t", "u", "v", "w", "x", "y", "z">>

UpperLetters == <<"A", "B", "C", "D", "E", "F", "G", "H", "I", "J", "K", "L", "M",
                  "N", "O", "P", "Q", "R", "S", "T", "U", "V", "W", "X", "Y", "Z">>

\* the character class [a-zA-Z]
AsciiLetters ==
    {LowerLetters[k] : k \in 1..Len(LowerLetters)}
        \cup {UpperLetters[k] : k \in 1..Len(UpperLetters)}

DigitVal(c) ==
    CASE c = "0" -> 0 [] c = "1" -> 1 [] c = "2" -> 2 [] c = "3" -> 3
      [] c = "4" -> 4 [] c = "5" -> 5 [] c = "6" -> 6 [] c = "7" -> 7
      [] c = "8" -> 8 [] c = "9" -> 9

DigitChar(d) ==
    CASE d = 0 -> "0" [] d = 1 -> "1" [] d = 2 -> "2" [] d = 3 -> "3"
      [] d = 4 -> "4" [] d = 5 -> "5" [] d = 6 -> "6" [] d = 7 -> "7"
      [] d = 8 -> "8" [] d = 9 -> "9"

\* str.upper() of one character
UpperChar(c) ==
    IF \E k \in 1..Len(LowerLetters) : LowerLetters[k] = c
    THEN UpperLetters[CHOOSE k \in 1..Len(LowerLetters) : LowerLetters[k] = c]
    ELSE IF c = "e_acute" THEN "E_ACUTE" ELSE c

\* str.lower() of one character
LowerChar(c) ==
    IF \E k \in 1..Len(UpperLetters) : UpperLetters[k] = c
    THEN LowerLetters[CHOOSE k \in 1..Len(UpperLetters) : UpperLetters[k] = c]
    ELSE IF c = "E_ACUTE" THEN "e_acute" ELSE c

upper(s) == [k \in 1..Len(s) |-> UpperChar(s[k])]

lower(s) == [k \in 1..Len(s) |-> LowerChar(s[k])]

\* s.replace(c, '') for a one-character c
replace(s, c) == SelectSeq(s, LAMBDA x : x # c)

\* isdigit() taking the empty string for digits, as all() of nothing does
IsdigitAllowsEmpty(s) == \A k \in 1..Len(s) : s[k] \in AsciiDigits \cup {"sup2"}

\* str.isdigit(): non-empty and every character is a digit character; the
\* superscript two is one (Unicode Numeric_Type=Digit) although not decimal
isdigit(s) == Len(s) > 0 /\ \A k \in 1..Len(s) : s[k] \in AsciiDigits \cup {"sup2"}

\* the slice without the step: the string as it is
ReversedNot(s) == s

\* all_chars[::-1]
reversed(s) == [k \in 1..Len(s) |-> s[Len(s) + 1 - k]]

RECURSIVE join(_)
\* ''.join(strings)
join(strings) ==
    IF strings = <<>> THEN <<>> ELSE Head(strings) \o join(Tail(strings))

RECURSIVE NatValue(_)
\* value of a string of ASCII digits ("" is 0)
NatValue(s) ==
    IF s = <<>> THEN 0
    ELSE 10 * NatValue(SubSeq(s, 1, Len(s) - 1)) + DigitVal(s[Len(s)])

RECURSIVE NatToStr(_)
NatToStr(n) ==
    IF n < 10 THEN <<DigitChar(n)>>
    ELSE NatToStr(n \div 10) \o <<DigitChar(n % 10)>>

\* str(num) writing no digit for zero
IntToStrZeroEmpty(n) ==
    IF n = 0 THEN <<>> ELSE IF n < 0 THEN <<"-">> \o NatToStr(-n) ELSE NatToStr(n)

\* str(num) for an int
IntToStr(n) == IF n < 0 THEN <<"-">> \o NatToStr(-n) ELSE NatToStr(n)

-----------------------------------------------------------------------------
(* JSON values and str(item) *)

\* a JSON string item
Str(chars) == [t |-> "str", s |-> chars]

\* the JSON items true and null
JsonTrue == [t |-> "true", s |-> <<>>]
JsonNull == [t |-> "null", s |-> <<>>]

\* item_str = str(item): a str is itself, True is 'True', None is 'None'
str_(item) ==
    CASE item.t = "str" -> item.s
      [] item.t = "true" -> <<"T", "r", "u", "e">>
      [] item.t = "null" -> <<"N", "o", "n", "e">>

-----------------------------------------------------------------------------
(* The tests of process_array's if / elif chain *)

\* LooksNumeric taking off one leading '-' only
LooksNumericLeadingMinus(item_str) ==
    isdigit(replace(IF item_str # <<>> /\ Head(item_str) = "-"
                    THEN Tail(item_str) ELSE item_str, "."))

\* item_str.replace('-', '').replace('.', '').isdigit()
LooksNumeric(item_str) == isdigit(replace(replace(item_str, "-"), "."))

\* the text float() parses once an optional leading '-' is taken off
Unsigned(item_str) ==
    IF item_str # <<>> /\ Head(item_str) = "-" THEN Tail(item_str) ELSE item_str

\* float(item_str) succeeds.  Of the strings that pass LooksNumeric, float()
\* accepts an optional sign followed by ASCII digits with at most one '.'
\* and at least one digit; anything else is a ValueError.
FloatParses(item_str) ==
    LET body == Unsigned(item_str)
        dots == Len(SelectSeq(body, LAMBDA x : x = "."))
    IN  /\ \A k \in 1..Len(body) : body[k] \in AsciiDigits \cup {"."}
        /\ dots <= 1
        /\ Len(body) - dots >= 1

\* the digits of s before its first '.'
RECURSIVE WholeDigits(_)
WholeDigits(s) ==
    IF s = <<>> \/ Head(s) = "." THEN <<>> ELSE <<Head(s)>> \o WholeDigits(Tail(s))

\* float(item_str), as sign, whole part and the digits after the point.
\* A double holds every whole part below 2^53 exactly, the drawn tokens are
\* far shorter, so no rounding is modelled.
float_(item_str) ==
    LET body == Unsigned(item_str)
        whole == WholeDigits(body)
    IN  [neg |-> body # item_str,
         whole |-> NatValue(whole),
         frac |-> IF Len(whole) < Len(body)
                  THEN SubSeq(body, Len(whole) + 2, Len(body)) ELSE <<>>]

\* int(f) rounding down instead of toward zero
IntFloor(f) ==
    IF f.neg /\ \E k \in 1..Len(f.frac) : f.frac[k] # "0"
    THEN 0 - (f.whole + 1)
    ELSE IF f.neg THEN 0 - f.whole ELSE f.whole

\* int(f) of a float: truncation toward zero
int_(f) == IF f.neg THEN 0 - f.whole ELSE f.whole

\* re.match(r'^[a-zA-Z]+$', item_str): '$' matches at the end of the string
\* and also just before a line feed that ends the string
MatchesAlphabet(item_str) ==
    LET core == IF item_str # <<>> /\ item_str[Len(item_str)] = "LF"
                THEN {item_str, SubSeq(item_str, 1, Len(item_str) - 1)}
                ELSE {item_str}
    IN  \E w \in core : Len(w) > 0 /\ \A k \in 1..Len(w) : w[k] \in AsciiLetters

\* the alternation started on the wrong foot: lowercase at index 0
AlternateCapsFromLower(reversed_chars) ==
    [k \in 1..Len(reversed_chars) |->
        IF (k - 1) % 2 = 1 THEN UpperChar(reversed_chars[k])
        ELSE LowerChar(reversed_chars[k])]

\* lines 46-51: alternating caps over the reversed string
AlternateCaps(reversed_chars) ==
    [k \in 1..Len(reversed_chars) |->
        IF (k - 1) % 2 = 0 THEN UpperChar(reversed_chars[k])
        ELSE LowerChar(reversed_chars[k])]

\* BuildConcat keeping the last alphabetic token only
BuildConcatLastOnly(strings) ==
    IF strings # <<>> THEN AlternateCaps(reversed(strings[Len(strings)])) ELSE <<>>

\* lines 39-51: concat_string from alphabet_strings
BuildConcat(strings) ==
    IF strings # <<>> THEN AlternateCaps(reversed(join(strings))) ELSE <<>>

-----------------------------------------------------------------------------
(* The requests the model draws *)

\* the characters of the exhaustive one-token inputs
TokChars == {"-", ".", "1", "2", "a", "B", " ", "LF", "$", "e_acute", "sup2"}

\* every string over TokChars of at most n characters
Strings(n) == UNION {[1..k -> TokChars] : k \in 0..n}

\* the items of the drawn lists: JSON strings and two non-string scalars
Items ==
    {Str(<<"1">>), Str(<<"2">>), Str(<<"-", "1">>), Str(<<"-", "1", ".", "7">>),
     Str(<<"-", "-", "1">>), Str(<<"1", "-", "2">>),
     Str(<<"a">>), Str(<<"B">>), Str(<<"c", "D">>), Str(<<"a", "LF">>),
     Str(<<"$">>), Str(<<"-">>), Str(<<"e_acute">>), JsonTrue}

\* every list of at most n items
ItemLists(n) == UNION {[1..k -> Items] : k \in 0..n}

StrList(tokens) == [k \in 1..Len(tokens) |-> Str(tokens[k])]

\* the lists of src/test_api.py and of the /bfhl info page, and edge cases
ExampleLists ==
    {StrList(<< <<"a">>, <<"1">>, <<"3", "3", "4">>, <<"4">>, <<"R">>, <<"$">> >>),
     StrList(<< <<"2">>, <<"a">>, <<"y">>, <<"4">>, <<"&">>, <<"-">>, <<"*">>,
                <<"5">>, <<"9", "2">>, <<"b">> >>),
     StrList(<< <<"A">>, <<"A", "B", "c", "D">>, <<"D", "O", "E">> >>),
     StrList(<< <<"-", "1">>, <<"2">>, <<"a">>, <<"B">>, <<"&">> >>),
     StrList(<< <<"1", ".", "2", ".", "3">> >>),
     StrList(<< <<"5", "-">> >>),
     StrList(<< <<"a", " ", "b">>, <<"a", "1">>, <<"9", ".", "9">> >>),
     StrList(<< <<"1">>, <<"-">>, <<".">>, <<>>, <<"a">> >>),
     <<JsonNull, Str(<<"0">>)>>}

DataLists ==
    ItemLists(MaxItems) \cup {<<Str(t)>> : t \in Strings(MaxTokLen)} \cup ExampleLists

\* what request.get_json() does or returns:
\*   bad_json       it raises (the body is not JSON)
\*   falsy          a falsy value: {}, null, [], 0, "", false
\*   no_data        a truthy object, list or string in which 'data' is not
\*   type_error     a truthy value whose `in` or subscript raises TypeError,
\*                  such as 5 or ["data"]
\*   data_not_list  an object whose 'data' is not a list
\*   data_list      an object whose 'data' is a list
BodyKinds == {"bad_json", "falsy", "no_data", "type_error", "data_not_list", "data_list"}

Requests ==
    {[kind |-> k, data |-> <<>>] : k \in BodyKinds \ {"data_list"}}
        \cup {[kind |-> "data_list", data |-> d] : d \in DataLists}

\* datetime.now().strftime("%d%m%Y")
Dates == {"01012025", "31122025"}

\* process_array has not returned / bfhl has not answered
NoResult == [none |-> TRUE]
NoResponse == [status |-> 0]

\* the six fields of process_array's return value
ResultFields ==
    {"odd_numbers", "even_numbers", "alphabets", "special_characters", "sum",
     "concat_string"}

-----------------------------------------------------------------------------
(* Concurrent calls of process_array: the server handles requests in threads, *)
(* and each call has its frame                                               *)

\* the threads that call process_array
Threads == {"t1", "t2"}

\* the items of the lists the threads pass
CallItems ==
    {Str(<<"-", "1", ".", "7">>), Str(<<"a">>), Str(<<"$">>), Str(<<"-", "-", "1">>)}

CallLists == UNION {[1..k -> CallItems] : k \in 0..MaxCallItems}

\* lines 13-18: the locals a call starts from (idx is the loop's position)
FreshFrame ==
    [idx |-> 1, odd_numbers |-> <<>>, even_numbers |-> <<>>, alphabets |-> <<>>,
     special_characters |-> <<>>, numbers_sum |-> 0, alphabet_strings |-> <<>>,
     concat_string |-> <<>>]

\* a thread that is not in process_array
IdleThread == [pc |-> "idle", data |-> <<>>, out |-> NoResult]

\* all the names are bound inside process_array: every call reads and writes
\* the locals of its own frame only
SharedFrame(t) == "t1"

\* line 8, lines 13-18: the frame of the call made by thread t
Frame(t) == t

-----------------------------------------------------------------------------
(* Initial state: the server waits for a request *)

\* no request is being handled
NoRequest == [kind |-> "none", data |-> <<>>]

Init ==
    /\ request = NoRequest
    /\ pc = "idle"
    /\ idx = 1
    /\ odd_numbers = <<>>
    /\ even_numbers = <<>>
    /\ alphabets = <<>>
    /\ special_characters = <<>>
    /\ numbers_sum = 0
    /\ alphabet_strings = <<>>
    /\ concat_string = <<>>
    /\ called = FALSE
    /\ result = NoResult
    /\ raised = <<>>
    /\ response = NoResponse
    /\ prev = NoResult
    /\ threads = [t \in Threads |-> IdleThread]
    /\ frames = [t \in Threads |-> FreshFrame]

\* line 64-65: a POST /bfhl request arrives and bfhl is entered
Receive ==
    /\ pc = "idle"
    /\ request' \in Requests
    /\ pc' = "bfhl"
    /\ UNCHANGED <<idx, locals, called, result, raised, response>>
    /\ UNCHANGED <<prev, callVars>>

-----------------------------------------------------------------------------
(* bfhl, lines 69-88: validation of the body *)

ErrorResponse(status, message) ==
    [status |-> status, is_success |-> FALSE, error |-> message]

\* lines 73-77
MissingData ==
    /\ pc = "bfhl"
    /\ request.kind \in {"falsy", "no_data"}
    /\ response' = ErrorResponse(400, <<"Missing 'data' field in request">>)
    /\ pc' = "done"
    /\ UNCHANGED <<request, idx, locals, called, result, raised>>
    /\ UNCHANGED <<prev, callVars>>

\* NotAnArray without the isinstance test: the value is handed on
NotAnArrayUnchecked ==
    /\ pc = "bfhl"
    /\ request.kind = "data_not_list"
    /\ called' = TRUE
    /\ pc' = "loop"
    /\ UNCHANGED <<request, idx, locals, result, raised, response>>
    /\ UNCHANGED <<prev, callVars>>

\* lines 79-85
NotAnArray ==
    /\ pc = "bfhl"
    /\ request.kind = "data_not_list"
    /\ response' = ErrorResponse(400, <<"'data' must be an array">>)
    /\ pc' = "done"
    /\ UNCHANGED <<request, idx, locals, called, result, raised>>
    /\ UNCHANGED <<prev, callVars>>

\* lines 71-79 raising: get_json() on a body that is not JSON, or the `in`
\* test or the subscript on a value that supports neither
HandlerRaises ==
    /\ pc = "bfhl"
    /\ request.kind \in {"bad_json", "type_error"}
    /\ raised' = IF request.kind = "bad_json" THEN <<"400 Bad Request">>
                 ELSE <<"TypeError">>
    /\ pc' = "except"
    /\ UNCHANGED <<request, idx, locals, called, result, response>>
    /\ UNCHANGED <<prev, callVars>>

\* line 88 and lines 13-18: the call, and the locals it starts from
CallProcessArray ==
    /\ pc = "bfhl"
    /\ request.kind = "data_list"
    /\ called' = TRUE
    /\ idx' = 1
    /\ odd_numbers' = <<>>
    /\ even_numbers' = <<>>
    /\ alphabets' = <<>>
    /\ special_characters' = <<>>
    /\ numbers_sum' = 0
    /\ alphabet_strings' = <<>>
    /\ concat_string' = <<>>
    /\ pc' = "loop"
    /\ UNCHANGED <<request, result, raised, response>>
    /\ UNCHANGED <<prev, callVars>>

-----------------------------------------------------------------------------
(* process_array, lines 20-37: one iteration of the for loop *)

InLoop == pc = "loop" /\ idx <= Len(request.data)

\* item_str of the current iteration (line 21)
item_str == str_(request.data[idx])

\* line 26
IsEven(num) == num % 2 = 0

\* line 30 adding the magnitude of the number
AddMagnitude(sum, num) == IF num < 0 THEN sum - num ELSE sum + num

\* line 30: numbers_sum += num
AddToSum(sum, num) == sum + num

\* ClassifyNumber with the parity tested on the float, before int(): a
\* number with a fraction is never even
ClassifyNumberParityOfFloat ==
    /\ InLoop
    /\ LooksNumeric(item_str)
    /\ FloatParses(item_str)
    /\ LET f == float_(item_str)
           num == int_(f)
       IN  /\ IF IsEven(num) /\ \A k \in 1..Len(f.frac) : f.frac[k] = "0"
              THEN /\ even_numbers' = Append(even_numbers, IntToStr(num))
                   /\ UNCHANGED odd_numbers
              ELSE /\ odd_numbers' = Append(odd_numbers, IntToStr(num))
                   /\ UNCHANGED even_numbers
           /\ numbers_sum' = AddToSum(numbers_sum, num)
    /\ idx' = idx + 1
    /\ UNCHANGED <<request, pc, alphabets, special_characters, alphabet_strings,
                   concat_string, called, result, raised, response>>
    /\ UNCHANGED <<prev, callVars>>

\* lines 24-30, float() succeeding
ClassifyNumber ==
    /\ InLoop
    /\ LooksNumeric(item_str)
    /\ FloatParses(item_str)
    /\ LET num == int_(float_(item_str))
       IN  /\ IF IsEven(num)
              THEN /\ even_numbers' = Append(even_numbers, IntToStr(num))
                   /\ UNCHANGED odd_numbers
              ELSE /\ odd_numbers' = Append(odd_numbers, IntToStr(num))
                   /\ UNCHANGED even_numbers
           /\ numbers_sum' = AddToSum(numbers_sum, num)
    /\ idx' = idx + 1
    /\ UNCHANGED <<request, pc, alphabets, special_characters, alphabet_strings,
                   concat_string, called, result, raised, response>>
    /\ UNCHANGED <<prev, callVars>>

\* NumberRaises with the conversion error swallowed: the token is kept as
\* a special character and the loop goes on
NumberRaisesSwallowed ==
    /\ InLoop
    /\ LooksNumeric(item_str)
    /\ ~FloatParses(item_str)
    /\ special_characters' = Append(special_characters, item_str)
    /\ idx' = idx + 1
    /\ UNCHANGED <<request, pc, odd_numbers, even_numbers, alphabets, numbers_sum,
                   alphabet_strings, concat_string, called, result, raised, response>>
    /\ UNCHANGED <<prev, callVars>>

\* lines 24-25, float() raising ValueError
NumberRaises ==
    /\ InLoop
    /\ LooksNumeric(item_str)
    /\ ~FloatParses(item_str)
    /\ raised' = <<"could not convert string to float: ", "'">> \o item_str \o <<"'">>
    /\ pc' = "wrap"
    /\ UNCHANGED <<request, idx, locals, called, result, response>>
    /\ UNCHANGED <<prev, callVars>>

\* ClassifyAlphabet inserting at the front of alphabets
ClassifyAlphabetPrepends ==
    /\ InLoop
    /\ ~LooksNumeric(item_str)
    /\ MatchesAlphabet(item_str)
    /\ alphabets' = <<upper(item_str)>> \o alphabets
    /\ alphabet_strings' = Append(alphabet_strings, item_str)
    /\ idx' = idx + 1
    /\ UNCHANGED <<request, pc, odd_numbers, even_numbers, special_characters,
                   numbers_sum, concat_string, called, result, raised, response>>
    /\ UNCHANGED <<prev, callVars>>

\* ClassifyAlphabet without the upper()
ClassifyAlphabetKeepsCase ==
    /\ InLoop
    /\ ~LooksNumeric(item_str)
    /\ MatchesAlphabet(item_str)
    /\ alphabets' = Append(alphabets, item_str)
    /\ alphabet_strings' = Append(alphabet_strings, item_str)
    /\ idx' = idx + 1
    /\ UNCHANGED <<request, pc, odd_numbers, even_numbers, special_characters,
                   numbers_sum, concat_string, called, result, raised, response>>
    /\ UNCHANGED <<prev, callVars>>

\* lines 32-34
ClassifyAlphabet ==
    /\ InLoop
    /\ ~LooksNumeric(item_str)
    /\ MatchesAlphabet(item_str)
    /\ alphabets' = Append(alphabets, upper(item_str))
    /\ alphabet_strings' = Append(alphabet_strings, item_str)
    /\ idx' = idx + 1
    /\ UNCHANGED <<request, pc, odd_numbers, even_numbers, special_characters,
                   numbers_sum, concat_string, called, result, raised, response>>
    /\ UNCHANGED <<prev, callVars>>

\* ClassifySpecial with the else branch lost: the token is skipped
ClassifySpecialSkips ==
    /\ InLoop
    /\ ~LooksNumeric(item_str)
    /\ ~MatchesAlphabet(item_str)
    /\ idx' = idx + 1
    /\ UNCHANGED <<request, pc, odd_numbers, even_numbers, alphabets, numbers_sum,
                   special_characters, alphabet_strings, concat_string, called,
                   result, raised, response>>
    /\ UNCHANGED <<prev, callVars>>

\* lines 36-37
ClassifySpecial ==
    /\ InLoop
    /\ ~LooksNumeric(item_str)
    /\ ~MatchesAlphabet(item_str)
    /\ special_characters' = Append(special_characters, item_str)
    /\ idx' = idx + 1
    /\ UNCHANGED <<request, pc, odd_numbers, even_numbers, alphabets, numbers_sum,
                   alphabet_strings, concat_string, called, result, raised, response>>
    /\ UNCHANGED <<prev, callVars>>

-----------------------------------------------------------------------------
(* process_array, lines 39-62: after the loop *)

\* lines 39-51
Concat ==
    /\ pc = "loop"
    /\ idx > Len(request.data)
    /\ concat_string' = BuildConcat(alphabet_strings)
    /\ pc' = "return"
    /\ UNCHANGED <<request, idx, odd_numbers, even_numbers, alphabets,
                   special_characters, numbers_sum, alphabet_strings, called,
                   result, raised, response>>
    /\ UNCHANGED <<prev, callVars>>

\* lines 53-60
Return ==
    /\ pc = "return"
    /\ result' = [odd_numbers |-> odd_numbers,
                  even_numbers |-> even_numbers,
                  alphabets |-> alphabets,
                  special_characters |-> special_characters,
                  sum |-> IntToStr(numbers_sum),
                  concat_string |-> concat_string]
    /\ pc' = "respond"
    /\ UNCHANGED <<request, idx, locals, called, raised, response>>
    /\ UNCHANGED <<prev, callVars>>

\* lines 61-62
WrapError ==
    /\ pc = "wrap"
    /\ raised' = <<"Error processing array: ">> \o raised
    /\ pc' = "except"
    /\ UNCHANGED <<request, idx, locals, called, result, response>>
    /\ UNCHANGED <<prev, callVars>>

-----------------------------------------------------------------------------
(* bfhl, lines 90-108: the response *)

\* lines 90-102
Success ==
    /\ pc = "respond"
    /\ \E current_date \in Dates :
         response' = [status |-> 200,
                      is_success |-> TRUE,
                      user_id |-> <<"john_doe_", current_date>>,
                      email |-> "john@xyz.com",
                      roll_number |-> "ABCD123",
                      odd_numbers |-> result.odd_numbers,
                      even_numbers |-> result.even_numbers,
                      alphabets |-> result.alphabets,
                      special_characters |-> result.special_characters,
                      sum |-> result.sum,
                      concat_string |-> result.concat_string]
    /\ pc' = "done"
    /\ UNCHANGED <<request, idx, locals, called, result, raised>>
    /\ UNCHANGED <<prev, callVars>>

\* InternalError answering with what the loop had collected
InternalErrorPartial ==
    /\ pc = "except"
    /\ response' = [status |-> 500, is_success |-> FALSE, error |-> raised,
                    odd_numbers |-> odd_numbers, even_numbers |-> even_numbers,
                    alphabets |-> alphabets,
                    special_characters |-> special_characters]
    /\ raised' = <<>>
    /\ pc' = "done"
    /\ UNCHANGED <<request, idx, locals, called, result>>
    /\ UNCHANGED <<prev, callVars>>

\* InternalError without the status code: Flask then answers 200
InternalErrorDefaultStatus ==
    /\ pc = "except"
    /\ response' = ErrorResponse(200, raised)
    /\ raised' = <<>>
    /\ pc' = "done"
    /\ UNCHANGED <<request, idx, locals, called, result>>
    /\ UNCHANGED <<prev, callVars>>

\* lines 104-108
InternalError ==
    /\ pc = "except"
    /\ response' = ErrorResponse(500, raised)
    /\ raised' = <<>>
    /\ pc' = "done"
    /\ UNCHANGED <<request, idx, locals, called, result>>
    /\ UNCHANGED <<prev, callVars>>

\* the response is sent and the handler's frame is gone: nothing of the
\* request is kept for the next one
Finish ==
    /\ pc = "done"
    /\ request' = NoRequest
    /\ pc' = "idle"
    /\ idx' = 1
    /\ odd_numbers' = <<>>
    /\ even_numbers' = <<>>
    /\ alphabets' = <<>>
    /\ special_characters' = <<>>
    /\ numbers_sum' = 0
    /\ alphabet_strings' = <<>>
    /\ concat_string' = <<>>
    /\ called' = FALSE
    /\ result' = NoResult
    /\ raised' = <<>>
    /\ response' = NoResponse
    /\ prev' = NoResult
    /\ UNCHANGED callVars

\* the client posts the entries of the result it got back as the next
\* request's data, the four lists one after the other
Feedback ==
    /\ pc = "done"
    /\ result # NoResult
    /\ request' = [kind |-> "data_list",
                   data |-> [k \in 1..Len(result.odd_numbers \o result.even_numbers
                                            \o result.alphabets
                                            \o result.special_characters) |->
                               Str((result.odd_numbers \o result.even_numbers
                                      \o result.alphabets
                                      \o result.special_characters)[k])]]
    /\ prev' = result
    /\ pc' = "bfhl"
    /\ idx' = 1
    /\ odd_numbers' = <<>>
    /\ even_numbers' = <<>>
    /\ alphabets' = <<>>
    /\ special_characters' = <<>>
    /\ numbers_sum' = 0
    /\ alphabet_strings' = <<>>
    /\ concat_string' = <<>>
    /\ called' = FALSE
    /\ result' = NoResult
    /\ raised' = <<>>
    /\ response' = NoResponse
    /\ UNCHANGED callVars

Next ==
    \/ Receive
    \/ MissingData
    \/ NotAnArray
    \/ HandlerRaises
    \/ CallProcessArray
    \/ ClassifyNumber
    \/ NumberRaises
    \/ ClassifyAlphabet
    \/ ClassifySpecial
    \/ Concat
    \/ Return
    \/ WrapError
    \/ Success
    \/ InternalError
    \/ Finish
    \/ Feedback

Spec == Init /\ [][Next]_vars

\* the steps of the handler once a request is in: bfhl and process_array
\* are straight-line code and one loop over a finite list, with no blocking
\* call, so a handler that can step does step
Handle ==
    \/ MissingData
    \/ NotAnArray
    \/ HandlerRaises
    \/ CallProcessArray
    \/ ClassifyNumber
    \/ NumberRaises
    \/ ClassifyAlphabet
    \/ ClassifySpecial
    \/ Concat
    \/ Return
    \/ WrapError
    \/ Success
    \/ InternalError

LiveSpec == Init /\ [][Next]_vars /\ WF_vars(Handle)

-----------------------------------------------------------------------------
(* process_array called by several threads at once *)

\* the locals of thread t's call
FrameOf(t) == frames[Frame(t)]

\* line 20: the loop of thread t's call has an item left
ThreadInLoop(t) ==
    threads[t].pc = "loop" /\ FrameOf(t).idx <= Len(threads[t].data)

\* line 21 in thread t's call
ThreadItemStr(t) == str_(threads[t].data[FrameOf(t).idx])

\* line 8, lines 13-18: thread t calls process_array(d)
Invoke(t) ==
    /\ threads[t].pc = "idle"
    /\ \E d \in CallLists :
          threads' = [threads EXCEPT ![t] = [pc |-> "loop", data |-> d, out |-> NoResult]]
    /\ frames' = [frames EXCEPT ![Frame(t)] = FreshFrame]
    /\ UNCHANGED handlerVars

\* lines 24-30 in thread t's call
ThreadNumber(t) ==
    /\ ThreadInLoop(t)
    /\ LooksNumeric(ThreadItemStr(t))
    /\ FloatParses(ThreadItemStr(t))
    /\ LET num == int_(float_(ThreadItemStr(t)))
           f == FrameOf(t)
       IN  frames' = [frames EXCEPT ![Frame(t)] =
                [f EXCEPT !.even_numbers =
                              IF IsEven(num) THEN Append(@, IntToStr(num)) ELSE @,
                          !.odd_numbers =
                              IF IsEven(num) THEN @ ELSE Append(@, IntToStr(num)),
                          !.numbers_sum = AddToSum(@, num),
                          !.idx = @ + 1]]
    /\ UNCHANGED <<threads, handlerVars>>

\* lines 24-25 and 61-62 in thread t's call: float() raises, the call ends
\* with the wrapped exception
ThreadRaises(t) ==
    /\ ThreadInLoop(t)
    /\ LooksNumeric(ThreadItemStr(t))
    /\ ~FloatParses(ThreadItemStr(t))
    /\ threads' = [threads EXCEPT ![t].pc = "raised",
                                  ![t].out =
                                      [error |-> <<"Error processing array: ",
                                                   "could not convert string to float: ",
                                                   "'">> \o ThreadItemStr(t) \o <<"'">>]]
    /\ UNCHANGED <<frames, handlerVars>>

\* lines 32-34 in thread t's call
ThreadAlphabet(t) ==
    /\ ThreadInLoop(t)
    /\ ~LooksNumeric(ThreadItemStr(t))
    /\ MatchesAlphabet(ThreadItemStr(t))
    /\ frames' = [frames EXCEPT ![Frame(t)] =
            [FrameOf(t) EXCEPT !.alphabets = Append(@, upper(ThreadItemStr(t))),
                               !.alphabet_strings = Append(@, ThreadItemStr(t)),
                               !.idx = @ + 1]]
    /\ UNCHANGED <<threads, handlerVars>>

\* lines 36-37 in thread t's call
ThreadSpecial(t) ==
    /\ ThreadInLoop(t)
    /\ ~LooksNumeric(ThreadItemStr(t))
    /\ ~MatchesAlphabet(ThreadItemStr(t))
    /\ frames' = [frames EXCEPT ![Frame(t)] =
            [FrameOf(t) EXCEPT !.special_characters = Append(@, ThreadItemStr(t)),
                               !.idx = @ + 1]]
    /\ UNCHANGED <<threads, handlerVars>>

\* lines 39-60 in thread t's call: concat_string and the return value
ThreadReturn(t) ==
    /\ threads[t].pc = "loop"
    /\ FrameOf(t).idx > Len(threads[t].data)
    /\ LET f == FrameOf(t)
           c == BuildConcat(f.alphabet_strings)
       IN  /\ frames' = [frames EXCEPT ![Frame(t)] = [f EXCEPT !.concat_string = c]]
           /\ threads' = [threads EXCEPT
                  ![t].pc = "returned",
                  ![t].out = [odd_numbers |-> f.odd_numbers,
                              even_numbers |-> f.even_numbers,
                              alphabets |-> f.alphabets,
                              special_characters |-> f.special_characters,
                              sum |-> IntToStr(f.numbers_sum),
                              concat_string |-> c]]
    /\ UNCHANGED handlerVars

\* the caller is done with the outcome and the frame is gone
Release(t) ==
    /\ threads[t].pc \in {"returned", "raised"}
    /\ threads' = [threads EXCEPT ![t] = IdleThread]
    /\ frames' = [frames EXCEPT ![Frame(t)] = FreshFrame]
    /\ UNCHANGED handlerVars

CallsNext ==
    \E t \in Threads :
        \/ Invoke(t)
        \/ ThreadNumber(t)
        \/ ThreadRaises(t)
        \/ ThreadAlphabet(t)
        \/ ThreadSpecial(t)
        \/ ThreadReturn(t)
        \/ Release(t)

CallsSpec == Init /\ [][CallsNext]_vars

-----------------------------------------------------------------------------
(* Vocabulary of the properties, stated on the request and the result *)

\* the tokens of the request in input order
Tokens == [k \in 1..Len(request.data) |-> str_(request.data[k])]

\* process_array has returned a result
Returned == result # NoResult

\* the position after the last '.'-free digit run: t is sign, whole digits,
\* optional point, fraction digits, with at least one digit in all
IsDecimal(t) ==
    \E s \in 0..1 : \E w \in s..Len(t) : \E d \in 0..1 :
        /\ s = 1 => (Len(t) >= 1 /\ t[1] = "-")
        /\ \A k \in (s + 1)..w : t[k] \in AsciiDigits
        /\ d = 1 => (Len(t) > w /\ t[w + 1] = ".")
        /\ d = 0 => w = Len(t)
        /\ \A k \in (w + d + 1)..Len(t) : t[k] \in AsciiDigits
        /\ Len(t) - s - d >= 1

RECURSIVE Pow10(_)
Pow10(k) == IF k = 0 THEN 1 ELSE 10 * Pow10(k - 1)

\* the value of a decimal token truncated toward zero, by arithmetic on the
\* number itself: numerator over a power of ten, quotient of the magnitude
TruncTowardZero(t) ==
    LET neg == t[1] = "-"
        digits == SelectSeq(t, LAMBDA x : x \in AsciiDigits)
        point == IF \E k \in 1..Len(t) : t[k] = "."
                 THEN CHOOSE k \in 1..Len(t) : t[k] = "." ELSE Len(t) + 1
        scale == Pow10(IF point > Len(t) THEN 0 ELSE Len(t) - point)
        magnitude == NatValue(digits) \div scale
    IN  IF neg THEN 0 - magnitude ELSE magnitude

\* the integer a decimal-integer string such as "-12" denotes
IntOfStr(s) ==
    IF s[1] = "-" THEN 0 - NatValue(Tail(s)) ELSE NatValue(s)

RECURSIVE SumInts(_)
SumInts(strs) == IF strs = <<>> THEN 0 ELSE IntOfStr(Head(strs)) + SumInts(Tail(strs))

\* seq without its j-th entry
Without(seq, j) == SubSeq(seq, 1, j - 1) \o SubSeq(seq, j + 1, Len(seq))

-----------------------------------------------------------------------------
(* C1 *)

\* every token is matched with an entry of its own in one of the groups:
\* a special entry equal to it, an alphabets entry equal to its uppercase
\* form, or a number entry equal to its truncated integer in decimal
RECURSIVE Accounted(_, _, _, _)
Accounted(tokens, numbers, alph, spec) ==
    IF tokens = <<>> THEN numbers = <<>> /\ alph = <<>> /\ spec = <<>>
    ELSE LET t == Head(tokens)
             rest == Tail(tokens)
         IN  \/ \E j \in 1..Len(spec) :
                   spec[j] = t /\ Accounted(rest, numbers, alph, Without(spec, j))
             \/ \E j \in 1..Len(alph) :
                   /\ alph[j] = upper(t)
                   /\ Accounted(rest, numbers, Without(alph, j), spec)
             \/ /\ IsDecimal(t)
                /\ \E j \in 1..Len(numbers) :
                      /\ numbers[j] = IntToStr(TruncTowardZero(t))
                      /\ Accounted(rest, Without(numbers, j), alph, spec)

\* C1: in every returned result the four lists together have as many entries
\* as the input has tokens, and the tokens can be matched one to one with
\* the entries: a special token with itself, an alphabetic token with its
\* uppercase form, a numeric token with its truncated integer in decimal.
C1_Partition ==
    Returned =>
        /\ Len(result.odd_numbers) + Len(result.even_numbers)
             + Len(result.alphabets) + Len(result.special_characters) = Len(Tokens)
        /\ Accounted(Tokens, result.odd_numbers \o result.even_numbers,
                     result.alphabets, result.special_characters)

\* a result with an entry in every group, the alphabetic one changed by the
\* uppercasing and the numeric one by the truncation
C1_Witness ==
    /\ Returned
    /\ result.special_characters # <<>>
    /\ \E k \in 1..Len(Tokens) : \E j \in 1..Len(result.alphabets) :
          result.alphabets[j] = upper(Tokens[k]) /\ result.alphabets[j] # Tokens[k]
    /\ \E k \in 1..Len(Tokens) :
          /\ IsDecimal(Tokens[k])
          /\ IntToStr(TruncTowardZero(Tokens[k])) # Tokens[k]
          /\ result.odd_numbers \o result.even_numbers # <<>>

-----------------------------------------------------------------------------
(* C2 *)

\* the characters str.isdigit() takes for digits
DigitChars == AsciiDigits \cup {"sup2"}

\* t passes the strip-and-check-digits test: nothing but digits, '-' and
\* '.', and at least one digit
PassesStripTest(t) ==
    /\ \A k \in 1..Len(t) : t[k] \in DigitChars \cup {"-", "."}
    /\ \E k \in 1..Len(t) : t[k] \in DigitChars

\* t passes the test and is no decimal number, as "--1" and "1.2.3"
Malformed(t) == PassesStripTest(t) /\ ~IsDecimal(t)

HasMalformed == \E k \in 1..Len(Tokens) : Malformed(Tokens[k])

FirstMalformed == CHOOSE k \in 1..Len(Tokens) :
    Malformed(Tokens[k]) /\ \A j \in 1..(k - 1) : ~Malformed(Tokens[j])

\* C2 as stated: a request with a malformed token that passes the test is
\* answered with a result in which that token is among the numbers.
C2_AsStated ==
    (pc = "done" /\ called /\ HasMalformed) =>
        /\ Returned
        /\ response.status = 200
        /\ Len(result.odd_numbers) + Len(result.even_numbers)
             >= Cardinality({k \in 1..Len(Tokens) : PassesStripTest(Tokens[k])})

\* C2, amended: a malformed token that passes the strip-and-check-digits
\* test is taken for a number and cannot be converted: the loop stops at the
\* first such token, which reaches no list and no sum, process_array returns
\* no result, and the request is answered 500 with the wrapped error.
C2_MalformedFailsCall ==
    (called /\ HasMalformed) =>
        /\ ~Returned
        /\ idx <= FirstMalformed
        /\ Len(odd_numbers) + Len(even_numbers) + Len(alphabets)
             + Len(special_characters) < FirstMalformed
        /\ pc = "done" =>
             /\ response.status = 500
             /\ response.is_success = FALSE
             /\ Head(response.error) = "Error processing array: "

\* "--1" after a valid token has failed the call
C2_Witness ==
    /\ pc = "done"
    /\ called
    /\ idx > 1
    /\ idx <= Len(Tokens)
    /\ Tokens[idx] = <<"-", "-", "1">>
    /\ response.status = 500

-----------------------------------------------------------------------------
(* C3 *)

\* the numeric branch (lines 25-30) is taken by the step: a number is
\* appended or float() raises
NumericBranchTaken ==
    \/ odd_numbers' # odd_numbers
    \/ even_numbers' # even_numbers
    \/ pc' = "wrap"

\* C3 as stated: digits only once a single leading '-' and every '.' are
\* taken off
StrictlyNumeric(t) ==
    LET u == IF t # <<>> /\ t[1] = "-" THEN Tail(t) ELSE t
        rest == SelectSeq(u, LAMBDA x : x # ".")
    IN  rest # <<>> /\ \A k \in 1..Len(rest) : rest[k] \in DigitChars

\* C3 as stated: a token is treated as numeric exactly when it is digits
\* only after a single leading '-' and every '.' are removed.
C3_AsStated ==
    [][InLoop => (NumericBranchTaken <=> StrictlyNumeric(item_str))]_vars

\* C3, amended: a token is treated as numeric exactly when, after removing
\* every '-', in whatever position, and every '.', what remains is a non-empty
\* string of digits; a '-' elsewhere than in front ("1-2", "5-") does make
\* the token numeric, and its conversion then fails the call.
C3_NumericTest ==
    [][InLoop =>
         /\ NumericBranchTaken <=> PassesStripTest(item_str)
         /\ (PassesStripTest(item_str) /\ ~IsDecimal(item_str)) => pc' = "wrap"]_vars

\* "1-2" was taken for a number and float() raised
C3_Witness ==
    /\ pc = "wrap"
    /\ item_str = <<"1", "-", "2">>

-----------------------------------------------------------------------------
(* C4 *)

RECURSIVE SumTruncated(_)
\* the sum of the truncated values of the decimal tokens among tokens
SumTruncated(tokens) ==
    IF tokens = <<>> THEN 0
    ELSE (IF IsDecimal(Head(tokens)) THEN TruncTowardZero(Head(tokens)) ELSE 0)
            + SumTruncated(Tail(tokens))

\* C4: in every returned result, sum is the decimal string of the sum of the
\* truncated integer values of the numeric tokens of the input ("0" when
\* there are none), which is also the sum of the integers listed in
\* odd_numbers and even_numbers.
C4_Sum ==
    Returned =>
        /\ result.sum = IntToStr(SumTruncated(Tokens))
        /\ IntOfStr(result.sum) = SumTruncated(Tokens)
        /\ IntOfStr(result.sum)
             = SumInts(result.odd_numbers) + SumInts(result.even_numbers)
        /\ (\A k \in 1..Len(Tokens) : ~IsDecimal(Tokens[k])) => result.sum = <<"0">>

\* a negative decimal and a positive integer were summed
C4_Witness ==
    /\ Returned
    /\ \E j, k \in 1..Len(Tokens) :
          /\ Tokens[j] = <<"-", "1", ".", "7">>
          /\ Tokens[k] = <<"2">>
    /\ result.sum = <<"1">>

-----------------------------------------------------------------------------
(* C5 *)

\* C5: every numeric token is truncated toward zero and its decimal string is
\* appended to even_numbers if the truncated integer is even and to
\* odd_numbers otherwise, whatever its sign: "-1" goes to odd_numbers as
\* "-1" and "-1.7" counts as -1, not -2.
C5_TruncateAndSplit ==
    [][(InLoop /\ IsDecimal(item_str)) =>
         LET v == TruncTowardZero(item_str)
         IN  IF 2 * (v \div 2) = v
             THEN /\ even_numbers' = Append(even_numbers, IntToStr(v))
                  /\ odd_numbers' = odd_numbers
             ELSE /\ odd_numbers' = Append(odd_numbers, IntToStr(v))
                  /\ even_numbers' = even_numbers]_vars

\* "-1.7" has just been appended to odd_numbers as "-1"
C5_Witness ==
    /\ pc = "loop"
    /\ idx > 1
    /\ Tokens[idx - 1] = <<"-", "1", ".", "7">>
    /\ odd_numbers # <<>>
    /\ odd_numbers[Len(odd_numbers)] = <<"-", "1">>
    /\ even_numbers = <<>>

-----------------------------------------------------------------------------
(* C6 *)

\* one or more ASCII letters and nothing else
LettersOnly(t) == t # <<>> /\ \A k \in 1..Len(t) : t[k] \in AsciiLetters

\* C6: a non-numeric token is appended to alphabets, uppercased, exactly when
\* it consists of one or more ASCII letters and nothing else; every other
\* non-numeric token (with whitespace, a line break, a digit, punctuation or
\* a non-ASCII letter) is appended unchanged to special_characters.
C6_AlphabetOrSpecial ==
    [][(InLoop /\ ~PassesStripTest(item_str)) =>
         IF LettersOnly(item_str)
         THEN /\ alphabets' = Append(alphabets, upper(item_str))
              /\ special_characters' = special_characters
         ELSE /\ special_characters' = Append(special_characters, item_str)
              /\ alphabets' = alphabets]_vars

-----------------------------------------------------------------------------
(* C7 *)

\* the tokens the classifier retained as alphabetic, in input order: those
\* whose uppercase form is listed in alphabets
RetainedAlphabetic ==
    SelectSeq(Tokens, LAMBDA t :
        \E j \in 1..Len(result.alphabets) : result.alphabets[j] = upper(t))

\* C7: concat_string is the concatenation of the alphabetic tokens in input
\* order, reversed character by character, with the character at every even
\* 0-based index in uppercase and at every odd index in lowercase, whatever
\* the original case and the token boundaries.
C7_Concat ==
    Returned =>
        LET joined == join(RetainedAlphabetic)
            n == Len(joined)
            c == result.concat_string
        IN  /\ Len(c) = n
            /\ \A i \in 0..(n - 1) :
                  c[i + 1] = IF i % 2 = 0 THEN UpperChar(joined[n - i])
                             ELSE LowerChar(joined[n - i])

\* "cD" then "a": reversed "aDc", alternated "AdC", across the token boundary
\* and against the original case
C7_Witness ==
    /\ Returned
    /\ RetainedAlphabetic = << <<"c", "D">>, <<"a">> >>
    /\ result.concat_string = <<"A", "d", "C">>

-----------------------------------------------------------------------------
(* C8 *)

\* the for loop was left before its last item
LoopAbandoned == called /\ pc # "loop" /\ idx <= Len(Tokens)

\* C8: when the classification of a token list fails, it fails as a whole:
\* process_array raises one wrapped error, prefixed "Error processing array:",
\* and returns no result, and the response carries is_success false, the error
\* and none of the six classification fields, whatever was collected before.
C8_FailsAsAWhole ==
    LoopAbandoned =>
        /\ ~Returned
        /\ pc \in {"wrap", "except", "done"}
        /\ pc \in {"wrap", "except"} => response = NoResponse
        /\ pc = "except" =>
             /\ Head(raised) = "Error processing array: "
             /\ \A k \in 2..Len(raised) : raised[k] # "Error processing array: "
        /\ pc = "done" =>
             /\ DOMAIN response = {"status", "is_success", "error"}
             /\ response.status = 500
             /\ response.is_success = FALSE
             /\ Head(response.error) = "Error processing array: "
             /\ DOMAIN response \cap ResultFields = {}

\* a number and a letter were collected before the failing token
C8_Witness ==
    /\ LoopAbandoned
    /\ pc = "done"
    /\ odd_numbers # <<>>
    /\ alphabets # <<>>
    /\ response.status = 500

-----------------------------------------------------------------------------
(* C9 *)

\* C9: a request whose body has no 'data' field, or whose 'data' is not an
\* array, is answered with is_success false and an error string, and
\* process_array is never invoked for it.
C9_ValidationFirst ==
    request.kind \in {"falsy", "no_data", "data_not_list"} =>
        /\ ~called
        /\ ~Returned
        /\ pc \in {"bfhl", "done"}
        /\ pc = "done" =>
             /\ DOMAIN response = {"status", "is_success", "error"}
             /\ response.status = 400
             /\ response.is_success = FALSE
             /\ response.error # <<>>

\* a body whose 'data' is no array has been answered
C9_Witness ==
    /\ request.kind = "data_not_list"
    /\ pc = "done"
    /\ response.error = <<"'data' must be an array">>

-----------------------------------------------------------------------------
(* C10 *)

\* tokens is an interleaving of the four lists, each entry standing for its
\* token: the lists are read off the input from left to right
RECURSIVE InInputOrder(_, _, _, _, _)
InInputOrder(tokens, odd, even, alph, spec) ==
    IF tokens = <<>> THEN odd = <<>> /\ even = <<>> /\ alph = <<>> /\ spec = <<>>
    ELSE LET t == Head(tokens)
             rest == Tail(tokens)
         IN  \/ /\ spec # <<>> /\ Head(spec) = t
                /\ InInputOrder(rest, odd, even, alph, Tail(spec))
             \/ /\ alph # <<>> /\ Head(alph) = upper(t)
                /\ InInputOrder(rest, odd, even, Tail(alph), spec)
             \/ /\ IsDecimal(t)
                /\ odd # <<>> /\ Head(odd) = IntToStr(TruncTowardZero(t))
                /\ InInputOrder(rest, Tail(odd), even, alph, spec)
             \/ /\ IsDecimal(t)
                /\ even # <<>> /\ Head(even) = IntToStr(TruncTowardZero(t))
                /\ InInputOrder(rest, odd, Tail(even), alph, spec)

\* C10: within each of odd_numbers, even_numbers, alphabets and
\* special_characters the entries are in the order in which their tokens
\* appear in the input.
C10_InputOrder ==
    Returned =>
        InInputOrder(Tokens, result.odd_numbers, result.even_numbers,
                     result.alphabets, result.special_characters)

\* three lists with several different entries each
C10_Witness ==
    /\ Returned
    /\ Len(result.even_numbers) >= 2
    /\ result.even_numbers[1] # result.even_numbers[2]
    /\ Len(result.alphabets) >= 2
    /\ result.alphabets[1] # result.alphabets[2]
    /\ Len(result.special_characters) >= 2
    /\ result.special_characters[1] # result.special_characters[2]

-----------------------------------------------------------------------------
(* C11 *)

RECURSIVE TotalLen(_)
\* the summed lengths of the strings of a list
TotalLen(strs) == IF strs = <<>> THEN 0 ELSE Len(Head(strs)) + TotalLen(Tail(strs))

\* C11: in every returned result the length of concat_string is the total
\* number of characters of the tokens classified as alphabetic, the summed
\* lengths of the entries of alphabets.
C11_ConcatLength ==
    Returned => Len(result.concat_string) = TotalLen(result.alphabets)

\* several alphabetic tokens of different lengths
C11_Witness ==
    /\ Returned
    /\ Len(result.alphabets) >= 2
    /\ Len(result.alphabets[1]) # Len(result.alphabets[2])
    /\ Len(result.concat_string) >= 3

-----------------------------------------------------------------------------
(* C13 *)

\* C13: a token that is exactly "-", exactly "." or the empty string is
\* neither numeric nor alphabetic: it is appended unchanged to
\* special_characters, adds nothing to the sum and does not fail the call.
C13_DashDotEmpty ==
    [][(InLoop /\ item_str \in {<<"-">>, <<".">>, <<>>}) =>
         /\ special_characters' = Append(special_characters, item_str)
         /\ numbers_sum' = numbers_sum
         /\ odd_numbers' = odd_numbers
         /\ even_numbers' = even_numbers
         /\ alphabets' = alphabets
         /\ pc' = "loop"
         /\ raised' = <<>>]_vars

\* "-", "." and "" have all three reached special_characters of a result
\* whose sum is that of the other tokens
C13_Witness ==
    /\ Returned
    /\ result.special_characters = << <<"-">>, <<".">>, <<>> >>
    /\ result.sum = <<"1">>
    /\ pc = "done"
    /\ response.status = 200

-----------------------------------------------------------------------------
(* C14 *)

\* C14: for the empty list the classification succeeds and returns four
\* empty lists, sum "0" and the empty concat_string.
C14_EmptyList ==
    (called /\ request.data = <<>>) =>
        /\ pc \in {"loop", "return", "respond", "done"}
        /\ raised = <<>>
        /\ Returned =>
             result = [odd_numbers |-> <<>>, even_numbers |-> <<>>,
                       alphabets |-> <<>>, special_characters |-> <<>>,
                       sum |-> <<"0">>, concat_string |-> <<>>]
        /\ pc \in {"respond", "done"} => Returned
        /\ pc = "done" => response.status = 200 /\ response.sum = <<"0">>

\* the empty list has been answered
C14_Witness ==
    /\ called
    /\ request.data = <<>>
    /\ pc = "done"
    /\ response.is_success = TRUE

-----------------------------------------------------------------------------
(* C15 *)

Scenario1 == << <<"a">>, <<"1">>, <<"3", "3", "4">>, <<"4">>, <<"R">>, <<"$">> >>

\* C15: ["a","1","334","4","R","$"] gives odd_numbers ["1"], even_numbers
\* ["334","4"], alphabets ["A","R"], special_characters ["$"], sum "339" and
\* concat_string "Ra", with is_success true.
C15_Scenario1 ==
    (called /\ request.data = StrList(Scenario1)) =>
        /\ raised = <<>>
        /\ pc \in {"respond", "done"} => Returned
        /\ pc = "done" =>
             /\ response.is_success = TRUE
             /\ response.odd_numbers = << <<"1">> >>
             /\ response.even_numbers = << <<"3", "3", "4">>, <<"4">> >>
             /\ response.alphabets = << <<"A">>, <<"R">> >>
             /\ response.special_characters = << <<"$">> >>
             /\ response.sum = <<"3", "3", "9">>
             /\ response.concat_string = <<"R", "a">>

\* the scenario has been answered
C15_Witness ==
    /\ request.data = StrList(Scenario1)
    /\ pc = "done"
    /\ response.status = 200

-----------------------------------------------------------------------------
(* C17 *)

\* C17: in every returned result the uppercased concat_string is the
\* character-by-character reverse of the concatenation of the entries of
\* alphabets.
C17_ConcatAgreesWithAlphabets ==
    Returned =>
        LET joined == join(result.alphabets)
            n == Len(joined)
        IN  /\ Len(result.concat_string) = n
            /\ \A k \in 1..n :
                  UpperChar(result.concat_string[k]) = joined[n + 1 - k]

\* a concat_string with lowercase characters from two tokens
C17_Witness ==
    /\ Returned
    /\ Len(result.alphabets) >= 2
    /\ \E k \in 1..Len(result.concat_string) :
          UpperChar(result.concat_string[k]) # result.concat_string[k]
    /\ join(result.alphabets) # reversed(join(result.alphabets))

-----------------------------------------------------------------------------
(* C16 *)

\* the two shapes of a response
SuccessShape ==
    /\ response.status = 200
    /\ response.is_success = TRUE
    /\ DOMAIN response
         = {"status", "is_success", "user_id", "email", "roll_number"} \cup ResultFields

ErrorShape ==
    /\ response.status \in {400, 500}
    /\ response.is_success = FALSE
    /\ DOMAIN response = {"status", "is_success", "error"}
    /\ response.error # <<>>

\* a request is answered when the handler is done, and in one of the shapes
Answered ==
    /\ pc = "done" <=> response # NoResponse
    /\ pc = "done" => (SuccessShape \/ ErrorShape)

\* the response of a request is written once, by the step that ends the
\* handler, and stays until the next request
AnsweredOnce ==
    /\ (response = NoResponse /\ response' # NoResponse) => pc' = "done"
    /\ response # NoResponse =>
         \/ response' = response
         \/ response' = NoResponse /\ pc' \in {"idle", "bfhl"}

\* C16: every POST /bfhl request ends with exactly one response, either
\* is_success true with status 200, the six classification fields, user_id,
\* email and roll_number and no error, or is_success false with status 400
\* or 500, an error string and none of the six fields.
C16_OneResponse ==
    /\ []Answered
    /\ [][AnsweredOnce]_vars
    /\ (pc = "bfhl") ~> (pc = "done")

\* a request that failed in the handler itself has its error response
C16_Witness ==
    /\ pc = "done"
    /\ request.kind = "type_error"
    /\ ErrorShape
    /\ response.status = 500

-----------------------------------------------------------------------------
(* C12 *)

\* thread t's call has ended, with a result or with the exception
Finished(t) == threads[t].pc \in {"returned", "raised"}

\* C12: classification is stateless and deterministic: two calls with the
\* same token list end with the same outcome, whatever calls were made
\* before them and however the steps of another call were interleaved with
\* theirs.
C12_Deterministic ==
    \A t, u \in Threads :
        (Finished(t) /\ Finished(u) /\ threads[t].data = threads[u].data)
            => threads[t].out = threads[u].out

\* two threads have classified the same two-token list, with a number and a
\* letter in it
C12_Witness ==
    /\ \A t \in Threads : threads[t].pc = "returned"
    /\ threads["t1"].data = threads["t2"].data
    /\ threads["t1"].out.odd_numbers # <<>>
    /\ threads["t2"].out.concat_string # <<>>

-----------------------------------------------------------------------------
(* C18 *)

\* C18: feeding the entries of a returned result's four lists back in as
\* tokens succeeds and puts every entry, unchanged, into the list it came
\* from, with the same sum.
C18_FixedPoint ==
    (prev # NoResult /\ called) =>
        /\ raised = <<>>
        /\ pc \in {"loop", "return", "respond", "done"}
        /\ Returned =>
             /\ result.odd_numbers = prev.odd_numbers
             /\ result.even_numbers = prev.even_numbers
             /\ result.alphabets = prev.alphabets
             /\ result.special_characters = prev.special_characters
             /\ result.sum = prev.sum

\* a result with entries in all four lists has been fed back and classified
C18_Witness ==
    /\ prev # NoResult
    /\ Returned
    /\ prev.odd_numbers # <<>>
    /\ prev.even_numbers # <<>>
    /\ prev.alphabets # <<>>
    /\ prev.special_characters # <<>>

====
